---- MODULE Spec2Model ----
(***************************************************************************)
(* Model of nemo_nlp/data/datasets/joint_intent_slot.py: the feature       *)
(* builder get_features and the two datasets built on it,                  *)
(* BertJointIntentSlotDataset and BertJointIntentSlotInferDataset.         *)
(*                                                                         *)
(* A query string is represented by the list of words that                 *)
(* query.strip().split() yields; a file is the list of its lines, a line   *)
(* the list of its whitespace-separated fields (strings).  Python lists    *)
(* are 0-based, sequences here are 1-based: example i of the code is       *)
(* entry i + 1 of the model.                                               *)
(***************************************************************************)
EXTENDS Integers, Sequences, FiniteSets, TLC

\* ------------------------------------------------------------------ bounds
MaxQueries == 2      \* queries in one get_features call
MaxWords == 3        \* words in one get_features call, over all its queries
MaxSeqLength == 4    \* largest configured max_seq_length
MaxLines == 2        \* lines of the slot file / data lines of the input file

\* pad_label=128, the default of get_features and of the dataset
PadLabel == 128

\* ---------------------------------------------------------------- helpers
Min(a, b) == IF a < b THEN a ELSE b
Max(a, b) == IF a > b THEN a ELSE b

\* Python's [x] * n: the empty list when n <= 0
Repeat(x, n) == IF n <= 0 THEN <<>> ELSE [k \in 1..n |-> x]

\* Python's max(list) of a non-empty list of integers
PyMax(s) == CHOOSE m \in {s[k] : k \in 1..Len(s)} : \A k \in 1..Len(s) : s[k] <= m

\* Python's x[start:] : a negative start counts from the end, and -0 is 0
PySliceFrom(x, start) ==
    LET lo == IF start < 0 THEN Max(Len(x) + start, 0) ELSE Min(start, Len(x))
    IN  SubSeq(x, lo + 1, Len(x))

\* Python's x[:stop] : a negative stop counts from the end
PySliceTo(x, stop) ==
    SubSeq(x, 1, IF stop < 0 THEN Max(Len(x) + stop, 0) ELSE Min(stop, Len(x)))

\* Python's s.rfind(c) on a string given as the list of its characters:
\* the 0-based index of the last c, -1 when there is none
RFind(str, c) ==
    LET hits == {k \in 1..Len(str) : str[k] = c}
    IN  IF hits = {} THEN -1
        ELSE (CHOOSE k \in hits : \A h \in hits : h <= k) - 1

Sum(s) ==
    LET RECURSIVE Go(_)
        Go(k) == IF k = 0 THEN 0 ELSE s[k] + Go(k - 1)
    IN  Go(Len(s))

SeqsUpTo(S, n) == UNION {[1..k -> S] : k \in 0..n}

\* -------------------------------------------------------------- tokenizer
\* The tokenizer is a parameter of the module.  The one used here is a
\* WordPiece-like table: "a" is one subtoken, "bc" splits in two, and "z"
\* yields no subtoken at all.
Vocab == {"a", "bc", "z"}

tokenize(word) ==
    CASE word = "a" -> <<"a">>
      [] word = "bc" -> <<"b", "##c">>
      [] OTHER -> <<>>

convert_token_to_id(t) ==
    CASE t = "[CLS]" -> 101
      [] t = "[SEP]" -> 102
      [] t = "a" -> 11
      [] t = "b" -> 12
      [] t = "##c" -> 13
      [] OTHER -> 100

\* int(s) on the decimal strings the files of the model hold
int(s) ==
    CASE s = "0" -> 0
      [] s = "1" -> 1
      [] s = "2" -> 2
      [] s = "3" -> 3
      [] s = "4" -> 4
      [] s = "5" -> 5
      [] s = "6" -> 6
      [] s = "7" -> 7

VARIABLES
    caller,            \* which entry point runs
    pc,                \* position in it
    err,               \* exception that ended it, "" if none
    input_path,        \* the input_file argument, as the list of its characters
    input_file,        \* lines of the file it names, header included
    slot_file,         \* lines of the slot file
    num_samples,
    shuffle,
    max_seq_length,    \* the argument as the caller passed it
    slot_lines,
    input_lines,
    dataset,           \* list of <<slot line no, input line no>> pairs
    raw_intents,
    queries,
    raw_slots,         \* [given |-> raw_slots is not None, lists |-> its value]
    all_subtokens,
    all_slot_masks,
    all_input_masks,
    all_slots,
    sent_lengths,
    eff_max_seq_length, \* max_seq_length of get_features after line 103
    too_long_count,
    features,          \* the tuple get_features returned, <<>> before
    self,              \* the fields of the dataset object
    tokenizer_calls,   \* calls of tokenizer.tokenize so far
    shuffled,          \* random.shuffle has run
    stats_files        \* sidecar files written so far

vars == <<caller, pc, err, input_path, input_file, slot_file, num_samples, shuffle,
          max_seq_length, slot_lines, input_lines, dataset, raw_intents,
          queries, raw_slots, all_subtokens, all_slot_masks, all_input_masks,
          all_slots, sent_lengths, eff_max_seq_length, too_long_count,
          features, self, tokenizer_calls, shuffled, stats_files>>

inputVars == <<caller, input_path, input_file, slot_file, num_samples, shuffle, max_seq_length>>
ctorVars == <<slot_lines, input_lines, dataset, raw_intents>>
localVars == <<all_subtokens, all_slot_masks, all_input_masks, all_slots,
               sent_lengths, eff_max_seq_length, too_long_count>>

\* ------------------------------------------------------------ get_features
\* WordStep marking one continuation position per subtoken instead of one less
WordStepOffByOne(acc, word, j, with_label, labels) ==
    LET word_tokens == tokenize(word)
        grown == [acc EXCEPT
                    !.subtokens = @ \o word_tokens,
                    !.slot_mask = (@ \o <<TRUE>>) \o Repeat(FALSE, Len(word_tokens)),
                    !.calls = @ + 1]
    IN  IF ~with_label THEN grown
        ELSE IF j > Len(labels) THEN [grown EXCEPT !.err = "IndexError"]
        ELSE [grown EXCEPT !.slots = @ \o Repeat(labels[j], Len(word_tokens))]

\* One iteration of the loop over the words of a query (lines 85-91).
\* acc holds the lists being built for this query, calls the number of
\* tokenizer.tokenize calls, err the exception raised ("" if none).
\* labels is raw_slots[i]; raw_slots[i][j] raises IndexError past its end.
WordStep(acc, word, j, with_label, labels) ==
    LET word_tokens == tokenize(word)
        grown == [acc EXCEPT
                    !.subtokens = @ \o word_tokens,
                    !.slot_mask = (@ \o <<TRUE>>) \o Repeat(FALSE, Len(word_tokens) - 1),
                    !.calls = @ + 1]
    IN  IF ~with_label THEN grown
        ELSE IF j > Len(labels) THEN [grown EXCEPT !.err = "IndexError"]
        ELSE [grown EXCEPT !.slots = @ \o Repeat(labels[j], Len(word_tokens))]

\* The body of the loop over the queries for one query (lines 79-101):
\* the raw subtokens, first-subtoken mask and slots of the query.
QueryFeatures(words, with_label, labels, pad_label) ==
    LET RECURSIVE Go(_, _)
        Go(acc, j) ==
            IF acc.err # "" \/ j > Len(words) THEN acc
            ELSE Go(WordStep(acc, words[j], j, with_label, labels), j + 1)
        start == [subtokens |-> <<"[CLS]">>,
                  slot_mask |-> <<TRUE>>,
                  slots |-> IF with_label THEN <<pad_label>> ELSE <<>>,
                  calls |-> 0,
                  err |-> ""]
        body == Go(start, 1)
    IN  IF body.err # "" THEN body
        ELSE [body EXCEPT
                !.subtokens = @ \o <<"[SEP]">>,
                !.slot_mask = @ \o <<TRUE>>,
                !.slots = IF with_label THEN @ \o <<pad_label>> ELSE @]

\* The first loop of get_features (lines 67-101) over all the queries.
TokenizeAll(qs, rs, pad_label) ==
    LET RECURSIVE Go(_, _)
        Go(st, i) ==
            IF st.err # "" \/ i > Len(qs) THEN st
            ELSE LET q == QueryFeatures(qs[i], rs.given,
                                        IF rs.given /\ i <= Len(rs.lists)
                                        THEN rs.lists[i] ELSE <<>>,
                                        pad_label)
                 IN  IF q.err # ""
                     THEN [st EXCEPT !.err = q.err, !.calls = @ + q.calls]
                     ELSE Go([st EXCEPT
                                !.all_subtokens = Append(@, q.subtokens),
                                !.all_slot_masks = Append(@, q.slot_mask),
                                !.all_input_masks = Append(@, Repeat(1, Len(q.subtokens))),
                                !.sent_lengths = Append(@, Len(q.subtokens)),
                                !.all_slots = IF rs.given THEN Append(@, q.slots) ELSE @,
                                !.calls = @ + q.calls],
                             i + 1)
    IN  Go([all_subtokens |-> <<>>, all_slot_masks |-> <<>>, all_input_masks |-> <<>>,
            sent_lengths |-> <<>>, all_slots |-> <<>>, calls |-> 0, err |-> ""], 1)

\* ['[CLS]'] + subtokens[-max_seq_length + 1:] and its three companions
\* (lines 110-116): head is the value put first.
KeepTail(head, xs, L) == <<head>> \o PySliceFrom(xs, 1 - L)

\* One iteration of the second loop (lines 108-132) for example i.
FitStep(st, i, L, with_label, pad_label) ==
    LET raw == st.all_subtokens[i]
        long == Len(raw) > L
        subtokens == IF long THEN KeepTail("[CLS]", raw, L) ELSE raw
        st1 == IF long
               THEN [st EXCEPT
                       !.all_input_masks[i] = KeepTail(1, @, L),
                       !.all_slot_masks[i] = KeepTail(TRUE, @, L),
                       !.all_slots = IF with_label
                                     THEN [@ EXCEPT ![i] = KeepTail(pad_label, @, L)]
                                     ELSE @,
                       !.too_long_count = @ + 1]
               ELSE st
        st2 == [st1 EXCEPT
                  !.all_input_ids = Append(@, [k \in 1..Len(subtokens) |->
                                                 convert_token_to_id(subtokens[k])]),
                  !.all_input_masks = Append(@, Repeat(1, Len(subtokens)))]
        extra == L - Len(subtokens)
        st3 == IF Len(subtokens) < L
               THEN [st2 EXCEPT
                       !.all_input_ids[i] = @ \o Repeat(0, extra),
                       !.all_slot_masks[i] = @ \o Repeat(FALSE, extra),
                       !.all_input_masks[i] = @ \o Repeat(0, extra),
                       !.all_slots = IF with_label
                                     THEN [@ EXCEPT ![i] = @ \o Repeat(pad_label, extra)]
                                     ELSE @]
               ELSE st2
    IN  [st3 EXCEPT !.all_segment_ids = Append(@, Repeat(0, L))]

\* The second loop of get_features (lines 106-132) over all the examples.
FitAll(st0, L, with_label, pad_label) ==
    LET RECURSIVE Go(_, _)
        Go(st, i) ==
            IF i > Len(st.all_subtokens) THEN st
            ELSE Go(FitStep(st, i, L, with_label, pad_label), i + 1)
    IN  Go(st0, 1)

\* max_seq_length = min(max_seq_length, max(sent_lengths))   (line 103)
EffectiveLength(M, lengths) == Min(M, PyMax(lengths))

\* --------------------------------------------------- BertJointIntentSlotDataset
\* list(zip(slot_lines, input_lines))   (line 184); no is the position of the
\* pair in the files, kept to tell the pairs apart.
ZipLines(sl, il) ==
    [k \in 1..Min(Len(sl), Len(il)) |-> [no |-> k, slot_line |-> sl[k], input_line |-> il[k]]]

\* the assert comparing the wrong way round: a longer slot file passes
LineCountsAtLeast(sl, il) == Len(sl) >= Len(il)

\* the condition of the assert of line 182
LineCountsMatch(sl, il) == Len(sl) = Len(il)

\* -1 taken for a sample count: every non-zero num_samples shuffles
ShouldShuffleNonZero(sh, n) == sh \/ n # 0

\* the condition of line 186
ShouldShuffle(sh, n) == sh \/ n > 0

\* the truncation to num_samples left out
SampleKeepsAll(d, n) == d

\* dataset[:num_samples] under the condition of line 188
Sample(d, n) == IF n > 0 THEN PySliceTo(d, n) ELSE d

\* [int(slot) for slot in slot_line.strip().split()]   (line 193)
ParseSlotLine(line) == [k \in 1..Len(line) |-> int(line[k])]
\* int(parts[-1])   (line 195)
ParseIntent(line) == int(line[Len(line)])
\* ' '.join(parts[:-1]), as the words get_features splits it into   (line 196)
ParseQuery(line) == SubSeq(line, 1, Len(line) - 1)

\* ------------------------------------------------------------------ inputs
Header == <<"sentence", "label">>
InputLinePool == {<<"a", "3">>, <<"bc", "a", "5">>}
SlotLinePool == {<<"1">>, <<"2", "4">>}
\* the input_file argument: "d/in" (a file in directory d), "in" and "dn" (files
\* of the working directory, named without a directory part)
InputPathPool == {<<"d", "/", "i", "n">>, <<"i", "n">>, <<"d", "n">>}
\* the directories there are: d, and no directory named i
ExistingDirs == {<<"d">>}

\* the batches of n queries with at most w words in all
RECURSIVE Batches(_, _)
Batches(n, w) ==
    IF n = 0 THEN {<<>>}
    ELSE UNION {{<<q>> \o rest : rest \in Batches(n - 1, w - Len(q))} :
                q \in SeqsUpTo(Vocab, w)}

AllBatches == UNION {Batches(n, MaxWords) : n \in 0..MaxQueries}

\* word-level labels for a batch: one list per query, as long as the query
\* or (for one query of the batch) one label shorter or longer
LabelsFor(qs, i, d) == [j \in 1..(Len(qs[i]) + d) |-> 10 * i + j]
SlotChoices(qs) ==
    {[i \in 1..Len(qs) |-> LabelsFor(qs, i, 0)]}
    \cup {[i \in 1..Len(qs) |-> LabelsFor(qs, i, IF i = k THEN d ELSE 0)] :
            k \in {k \in 1..Len(qs) : Len(qs[k]) > 0}, d \in {-1, 1}}
    \cup {[i \in 1..Len(qs) |-> LabelsFor(qs, i, IF i = k THEN 1 ELSE 0)] :
            k \in {k \in 1..Len(qs) : Len(qs[k]) = 0}}

NoSlots == [given |-> FALSE, lists |-> <<>>]
NoSelf == [built |-> FALSE, all_input_ids |-> <<>>, all_segment_ids |-> <<>>,
           all_input_masks |-> <<>>, all_slot_masks |-> <<>>, all_slots |-> <<>>,
           all_intents |-> <<>>]

InitRest ==
    /\ err = ""
    /\ slot_lines = <<>> /\ input_lines = <<>> /\ dataset = <<>> /\ raw_intents = <<>>
    /\ all_subtokens = <<>> /\ all_slot_masks = <<>> /\ all_input_masks = <<>>
    /\ all_slots = <<>> /\ sent_lengths = <<>>
    /\ eff_max_seq_length = max_seq_length /\ too_long_count = 0
    /\ features = <<>> /\ self = NoSelf
    /\ tokenizer_calls = 0 /\ shuffled = FALSE /\ stats_files = {}

\* a direct call get_features(queries, max_seq_length, tokenizer[, raw_slots=...])
InitGetFeatures ==
    /\ caller = "get_features" /\ pc = "get_features"
    /\ input_path = <<>> /\ input_file = <<>> /\ slot_file = <<>>
    /\ num_samples = -1 /\ shuffle = FALSE
    /\ max_seq_length \in 1..MaxSeqLength
    /\ queries \in AllBatches
    /\ raw_slots \in {NoSlots} \cup {[given |-> TRUE, lists |-> l] : l \in SlotChoices(queries)}
    /\ InitRest

\* BertJointIntentSlotInferDataset(queries, max_seq_length, tokenizer)
InitInferDataset ==
    /\ caller = "BertJointIntentSlotInferDataset" /\ pc = "get_features"
    /\ input_path = <<>> /\ input_file = <<>> /\ slot_file = <<>>
    /\ num_samples = -1 /\ shuffle = FALSE
    /\ max_seq_length \in 1..MaxSeqLength
    /\ queries \in AllBatches
    /\ raw_slots = NoSlots
    /\ InitRest

\* BertJointIntentSlotDataset(input_file, slot_file, max_seq_length, tokenizer,
\*                            num_samples, shuffle)
InitDataset ==
    /\ caller = "BertJointIntentSlotDataset" /\ pc = "init"
    /\ input_path \in InputPathPool
    /\ input_file \in {<<Header>> \o ls : ls \in SeqsUpTo(InputLinePool, MaxLines)}
    /\ slot_file \in SeqsUpTo(SlotLinePool, MaxLines)
    /\ num_samples \in -1..(MaxLines + 1)
    /\ shuffle \in BOOLEAN
    /\ max_seq_length \in 1..MaxSeqLength
    /\ queries = <<>> /\ raw_slots = NoSlots
    /\ InitRest

Init == InitGetFeatures \/ InitInferDataset \/ InitDataset

\* ----------------------------------------------------------------- actions
Raise(e) == pc' = "raised" /\ err' = e

\* lines 173-174
CheckNumSamples ==
    /\ pc = "init"
    /\ IF num_samples = 0 THEN Raise("ValueError") ELSE pc' = "read" /\ err' = err
    /\ UNCHANGED <<inputVars, ctorVars, localVars, queries, raw_slots, features, self,
                   tokenizer_calls, shuffled, stats_files>>

\* lines 176-180
ReadFiles ==
    /\ pc = "read"
    /\ slot_lines' = slot_file
    /\ input_lines' = PySliceFrom(input_file, 1)
    /\ pc' = "assert"
    /\ UNCHANGED <<inputVars, err, dataset, raw_intents, localVars, queries, raw_slots,
                   features, self, tokenizer_calls, shuffled, stats_files>>

\* line 182
AssertLineCounts ==
    /\ pc = "assert"
    /\ IF LineCountsMatch(slot_lines, input_lines)
       THEN pc' = "zip" /\ err' = err
       ELSE Raise("AssertionError")
    /\ UNCHANGED <<inputVars, ctorVars, localVars, queries, raw_slots, features, self,
                   tokenizer_calls, shuffled, stats_files>>

\* lines 184-189: random.shuffle may leave the list in any order
ShuffleSample ==
    /\ pc = "zip"
    /\ IF ShouldShuffle(shuffle, num_samples)
       THEN /\ \E p \in Permutations(1..Len(slot_lines)) :
                  dataset' = Sample([k \in 1..Len(slot_lines) |->
                                       ZipLines(slot_lines, input_lines)[p[k]]],
                                    num_samples)
            /\ shuffled' = TRUE
       ELSE /\ dataset' = Sample(ZipLines(slot_lines, input_lines), num_samples)
            /\ shuffled' = shuffled
    /\ pc' = "parse"
    /\ UNCHANGED <<inputVars, err, slot_lines, input_lines, raw_intents, localVars,
                   queries, raw_slots, features, self, tokenizer_calls, stats_files>>

\* lines 191-196
ParseLines ==
    /\ pc = "parse"
    /\ raw_slots' = [given |-> TRUE,
                     lists |-> [k \in 1..Len(dataset) |-> ParseSlotLine(dataset[k].slot_line)]]
    /\ raw_intents' = [k \in 1..Len(dataset) |-> ParseIntent(dataset[k].input_line)]
    /\ queries' = [k \in 1..Len(dataset) |-> ParseQuery(dataset[k].input_line)]
    /\ pc' = "get_features"
    /\ UNCHANGED <<inputVars, err, slot_lines, input_lines, dataset, localVars,
                   features, self, tokenizer_calls, shuffled, stats_files>>

\* get_features, lines 67-101
Tokenize ==
    /\ pc = "get_features"
    /\ LET st == TokenizeAll(queries, raw_slots, PadLabel)
       IN  /\ tokenizer_calls' = tokenizer_calls + st.calls
           /\ IF st.err # ""
              THEN /\ Raise(st.err)
                   /\ UNCHANGED <<all_subtokens, all_slot_masks, all_input_masks,
                                  all_slots, sent_lengths>>
              ELSE /\ pc' = "fit" /\ err' = err
                   /\ all_subtokens' = st.all_subtokens
                   /\ all_slot_masks' = st.all_slot_masks
                   /\ all_input_masks' = st.all_input_masks
                   /\ all_slots' = st.all_slots
                   /\ sent_lengths' = st.sent_lengths
    /\ UNCHANGED <<inputVars, ctorVars, queries, raw_slots, eff_max_seq_length,
                   too_long_count, features, self, shuffled, stats_files>>

\* get_features, lines 103-140: max() of an empty list raises ValueError
Fit ==
    /\ pc = "fit"
    /\ IF Len(sent_lengths) = 0
       THEN /\ Raise("ValueError")
            /\ UNCHANGED <<localVars, features>>
       ELSE LET L == EffectiveLength(max_seq_length, sent_lengths)
                st == FitAll([all_subtokens |-> all_subtokens,
                              all_slot_masks |-> all_slot_masks,
                              all_input_masks |-> all_input_masks,
                              all_slots |-> all_slots,
                              all_input_ids |-> <<>>,
                              all_segment_ids |-> <<>>,
                              too_long_count |-> 0],
                             L, raw_slots.given, PadLabel)
            IN  /\ eff_max_seq_length' = L
                /\ all_slot_masks' = st.all_slot_masks
                /\ all_input_masks' = st.all_input_masks
                /\ all_slots' = st.all_slots
                /\ too_long_count' = st.too_long_count
                /\ features' = <<st.all_input_ids, st.all_segment_ids, st.all_input_masks,
                                 st.all_slot_masks, st.all_slots>>
                /\ pc' = IF caller = "get_features" THEN "done" ELSE "store"
                /\ err' = err
                /\ UNCHANGED <<all_subtokens, sent_lengths>>
    /\ UNCHANGED <<inputVars, ctorVars, queries, raw_slots, self, tokenizer_calls,
                   shuffled, stats_files>>

\* BertJointIntentSlotDataset.__init__, lines 203-208
StoreDataset ==
    /\ pc = "store" /\ caller = "BertJointIntentSlotDataset"
    /\ self' = [built |-> TRUE,
                all_input_ids |-> features[1], all_segment_ids |-> features[2],
                all_input_masks |-> features[3], all_slot_masks |-> features[4],
                all_slots |-> features[5], all_intents |-> raw_intents]
    /\ pc' = "stats"
    /\ UNCHANGED <<inputVars, err, ctorVars, localVars, queries, raw_slots, features,
                   tokenizer_calls, shuffled, stats_files>>

\* infold = input_file[:input_file.rfind('/')]   (line 210): without a '/' in
\* the path rfind gives -1 and the slice drops the last character of the name
Infold(path) == PySliceTo(path, RFind(path, "/"))

\* open(outfile, 'w') of get_label_stats (line 53) finds the directory of outfile
CanOpenIn(dir) == dir \in ExistingDirs

\* BertJointIntentSlotDataset.__init__, lines 210-215: get_label_stats opens
\* infold + '/intent_stats.tsv', then infold + '/slot_stats.tsv', for writing;
\* open raises FileNotFoundError when infold is no directory
WriteStats ==
    /\ pc = "stats"
    /\ LET infold == Infold(input_path)
       IN  IF CanOpenIn(infold)
           THEN /\ stats_files' = {infold \o <<"/intent_stats.tsv">>,
                                   infold \o <<"/slot_stats.tsv">>}
                /\ pc' = "done" /\ err' = err
           ELSE /\ Raise("FileNotFoundError")
                /\ stats_files' = stats_files
    /\ UNCHANGED <<inputVars, ctorVars, localVars, queries, raw_slots, features,
                   self, tokenizer_calls, shuffled>>

\* BertJointIntentSlotInferDataset.__init__, lines 253-256
StoreInferDataset ==
    /\ pc = "store" /\ caller = "BertJointIntentSlotInferDataset"
    /\ self' = [NoSelf EXCEPT
                  !.built = TRUE,
                  !.all_input_ids = features[1], !.all_segment_ids = features[2],
                  !.all_input_masks = features[3], !.all_slot_masks = features[4]]
    /\ pc' = "done"
    /\ UNCHANGED <<inputVars, err, ctorVars, localVars, queries, raw_slots, features,
                   tokenizer_calls, shuffled, stats_files>>

Next ==
    \/ CheckNumSamples
    \/ ReadFiles
    \/ AssertLineCounts
    \/ ShuffleSample
    \/ ParseLines
    \/ Tokenize
    \/ Fit
    \/ StoreDataset
    \/ WriteStats
    \/ StoreInferDataset

Spec == Init /\ [][Next]_vars

\* __len__ and __getitem__ of both datasets (lines 217-226, 258-265)
DatasetLen == Len(self.all_input_ids)
GetItem(idx) ==
    [input_ids |-> self.all_input_ids[idx + 1],
     segment_ids |-> self.all_segment_ids[idx + 1],
     input_mask |-> self.all_input_masks[idx + 1],
     slot_mask |-> self.all_slot_masks[idx + 1],
     intent |-> IF caller = "BertJointIntentSlotDataset"
                THEN self.all_intents[idx + 1] ELSE -1,
     slots |-> IF caller = "BertJointIntentSlotDataset"
               THEN self.all_slots[idx + 1] ELSE <<>>]

\* ------------------------------------------------------ vocabulary of claims
N == Len(queries)
Returned == Len(features) = 5
with_label == raw_slots.given
LabelsOf(i) == IF with_label /\ i <= Len(raw_slots.lists) THEN raw_slots.lists[i] ELSE <<>>

\* the subtokens of the words of a query, in order, without the two markers
RECURSIVE FlatTokens(_)
FlatTokens(words) ==
    IF words = <<>> THEN <<>> ELSE tokenize(Head(words)) \o FlatTokens(Tail(words))

\* raw (pre-truncation) subtoken length of a query, [CLS] and [SEP] included
RawLen(words) == Len(FlatTokens(words)) + 2
AllWordsTokenize(words) == \A j \in 1..Len(words) : Len(tokenize(words[j])) >= 1
\* the effective length L of the batch
BatchL == Min(max_seq_length, PyMax([i \in 1..N |-> RawLen(queries[i])]))
\* the final k entries of a sequence
LastK(xs, k) == SubSeq(xs, Len(xs) - k + 1, Len(xs))
IdsOf(toks) == [k \in 1..Len(toks) |-> convert_token_to_id(toks[k])]
\* the raw sequences of query i, as the first loop builds them
Raw(i) == QueryFeatures(queries[i], with_label, LabelsOf(i), PadLabel)

\* The record get_features makes of one query on its own, given the effective
\* length L of its batch.
ExampleOf(words, labelled, labels, L) ==
    LET q == QueryFeatures(words, labelled, labels, PadLabel)
        st == FitStep([all_subtokens |-> <<q.subtokens>>,
                       all_slot_masks |-> <<q.slot_mask>>,
                       all_input_masks |-> <<Repeat(1, Len(q.subtokens))>>,
                       all_slots |-> IF labelled THEN <<q.slots>> ELSE <<>>,
                       all_input_ids |-> <<>>,
                       all_segment_ids |-> <<>>,
                       too_long_count |-> 0],
                      1, L, labelled, PadLabel)
    IN  [input_ids |-> st.all_input_ids[1],
         segment_ids |-> st.all_segment_ids[1],
         input_mask |-> st.all_input_masks[1],
         slot_mask |-> st.all_slot_masks[1],
         slots |-> IF labelled THEN st.all_slots[1] ELSE <<>>]

\* ------------------------------------------------------------------ claims

\* C1: a call of get_features on N >= 1 queries returns token-id, segment-id,
\* attention-mask and first-subtoken-mask lists of exactly N sequences each,
\* the i-th of each belonging to the i-th query, and a slot list of N sequences
\* when raw_slots is given and of none when it is not.
C1_FiveParallelLists ==
    (Returned /\ N >= 1) =>
        /\ \A k \in 1..4 : Len(features[k]) = N
        /\ Len(features[5]) = IF with_label THEN N ELSE 0
        /\ \A i \in 1..N :
              LET e == ExampleOf(queries[i], with_label, LabelsOf(i), eff_max_seq_length)
              IN  /\ i <= Len(features[1]) /\ features[1][i] = e.input_ids
                  /\ i <= Len(features[2]) /\ features[2][i] = e.segment_ids
                  /\ i <= Len(features[3]) /\ features[3][i] = e.input_mask
                  /\ i <= Len(features[4]) /\ features[4][i] = e.slot_mask

\* C2: for every max_seq_length M >= 1 and every batch of N >= 1 queries whose
\* words all tokenize to at least one subtoken, every sequence returned for
\* every example has length L = min(M, longest raw length of the batch).
C2_AllSequencesHaveLengthL ==
    (Returned /\ N >= 1 /\ max_seq_length >= 1
       /\ \A i \in 1..N : AllWordsTokenize(queries[i])) =>
        /\ eff_max_seq_length = BatchL
        /\ \A i \in 1..N :
              /\ \A k \in 1..4 : Len(features[k][i]) = BatchL
              /\ with_label => Len(features[5][i]) = BatchL

\* C3: truncation is tail-anchored: an example whose raw length exceeds L comes
\* back as the id of [CLS] followed by the ids of its final L-1 raw subtokens,
\* and its attention mask, first-subtoken mask and slots as 1 / True / pad label
\* followed by their own final L-1 raw entries.
C3_TailAnchoredTruncation ==
    Returned =>
        \A i \in 1..N :
            RawLen(queries[i]) > eff_max_seq_length =>
                LET L == eff_max_seq_length
                    raw == Raw(i)
                IN  /\ features[1][i] =
                          <<convert_token_to_id("[CLS]")>> \o IdsOf(LastK(raw.subtokens, L - 1))
                    /\ features[3][i] = <<1>> \o LastK(Repeat(1, RawLen(queries[i])), L - 1)
                    /\ features[4][i] = <<TRUE>> \o LastK(raw.slot_mask, L - 1)
                    /\ with_label => features[5][i] = <<PadLabel>> \o LastK(raw.slots, L - 1)

IsOnesThenZeros(m) ==
    \E c \in 0..Len(m) : \A k \in 1..Len(m) : m[k] = IF k <= c THEN 1 ELSE 0

\* C4: an example of raw length n < L keeps its first n positions and is filled
\* on the right, up to L, with 0 (token ids, attention mask), False
\* (first-subtoken mask) and the pad label (slots); and the attention mask of
\* every returned example is a run of 1s followed by 0s that sums to min(n, L).
C4_RightPadding ==
    Returned =>
        \A i \in 1..N :
            LET L == eff_max_seq_length
                n == RawLen(queries[i])
                raw == Raw(i)
                Padded(f, r, fill) ==
                    /\ Len(f) = L
                    /\ SubSeq(f, 1, n) = SubSeq(r, 1, n)
                    /\ \A k \in (n + 1)..L : f[k] = fill
            IN  /\ n < L =>
                    /\ Padded(features[1][i], IdsOf(raw.subtokens), 0)
                    /\ Padded(features[3][i], Repeat(1, n), 0)
                    /\ Padded(features[4][i], raw.slot_mask, FALSE)
                    /\ with_label => Padded(features[5][i], raw.slots, PadLabel)
                /\ Sum(features[3][i]) = Min(n, L)
                /\ IsOnesThenZeros(features[3][i])

LabelCountMismatch ==
    /\ with_label
    /\ \E i \in 1..N : Len(LabelsOf(i)) # Len(queries[i])

\* C5: when for some query the number of word-level labels differs from the
\* number of words, fewer or more, construction fails: nothing is returned and
\* no dataset is produced.
C5_LabelCountMismatchRejected ==
    LabelCountMismatch =>
        /\ pc \in {"get_features", "raised"}
        /\ ~Returned
        /\ ~self.built

EmptyCall ==
    \/ caller \in {"get_features", "BertJointIntentSlotInferDataset"} /\ N = 0
    \/ /\ caller = "BertJointIntentSlotDataset"
       /\ input_file = <<Header>> /\ slot_file = <<>> /\ num_samples # 0

\* C6: get_features on no query, the inference dataset on an empty query list
\* and the labeled dataset on a header-only input file with an empty slot file
\* complete without raising, every returned list empty and the length 0.
C6_EmptyBatchCompletes ==
    EmptyCall =>
        /\ pc # "raised" /\ err = ""
        /\ pc = "done" =>
              /\ \A k \in 1..5 : features[k] = <<>>
              /\ caller # "get_features" => self.built /\ Len(self.all_input_ids) = 0

\* number of subtokens of the words before word j
RECURSIVE Offset(_, _)
Offset(words, j) == IF j <= 1 THEN 0 ELSE Offset(words, j - 1) + Len(tokenize(words[j - 1]))
\* 1-based positions of the subtokens of word j in [CLS] + subtokens + [SEP]
PositionsOf(words, j) == (Offset(words, j) + 2)..(Offset(words, j) + 1 + Len(tokenize(words[j])))

\* C7: after the first loop, for every query whose words all tokenize to at least
\* one subtoken, the first-subtoken mask and (when labeled) the slots are as long
\* as [CLS] + subtokens + [SEP]; the mask is True exactly at [CLS], at [SEP] and at
\* the first subtoken of each word, words + 2 times in all; the slots carry
\* the pad label at [CLS] and [SEP] and the label of word j at each of its subtokens.
C7_RawSequencesAligned ==
    pc = "fit" =>
        \A i \in 1..N :
            AllWordsTokenize(queries[i]) =>
                LET words == queries[i]
                    n == RawLen(words)
                    firsts == {1, n} \cup {Offset(words, j) + 2 : j \in 1..Len(words)}
                IN  /\ all_subtokens[i] = (<<"[CLS]">> \o FlatTokens(words)) \o <<"[SEP]">>
                    /\ Len(all_slot_masks[i]) = n
                    /\ \A k \in 1..n : all_slot_masks[i][k] = (k \in firsts)
                    /\ Cardinality({k \in 1..n : all_slot_masks[i][k]}) = Len(words) + 2
                    /\ with_label =>
                          /\ Len(all_slots[i]) = n
                          /\ all_slots[i][1] = PadLabel /\ all_slots[i][n] = PadLabel
                          /\ \A j \in 1..Len(words) : \A k \in PositionsOf(words, j) :
                                all_slots[i][k] = raw_slots.lists[i][j]

\* C7 witness: a labeled two-word query with a word of two subtokens has been tokenized
C7_Witness ==
    /\ pc = "fit" /\ with_label
    /\ \E i \in 1..N : queries[i] = <<"bc", "a">> /\ Len(all_slots[i]) = 5

\* number of (slot line, input line) pairs of the files
K == Len(slot_file)
DatasetDone == caller = "BertJointIntentSlotDataset" /\ pc = "done"
InferDone == caller = "BertJointIntentSlotInferDataset" /\ pc = "done"

\* what __getitem__ has to return for the pair made of line p of the slot file
\* and data line p of the input file (the header is line 1 of input_file)
ItemOfPair(p) ==
    LET e == ExampleOf(ParseQuery(input_file[p + 1]), TRUE, ParseSlotLine(slot_file[p]),
                       eff_max_seq_length)
    IN  [input_ids |-> e.input_ids, segment_ids |-> e.segment_ids,
         input_mask |-> e.input_mask, slot_mask |-> e.slot_mask,
         intent |-> ParseIntent(input_file[p + 1]), slots |-> e.slots]

Injections(n, m) == {f \in [1..n -> 1..m] : \A a, b \in 1..n : a # b => f[a] # f[b]}

\* C8: whatever shuffle and num_samples (-1 or positive), every index idx below
\* len(dataset) returns token ids, masks, slots and intent that all come from
\* one pair of lines of the files, no pair serves two indices, and len(dataset)
\* is K when num_samples is -1 and min(num_samples, K) when it is positive.
C8_ItemsComeFromOnePair ==
    DatasetDone =>
        /\ DatasetLen = (IF num_samples > 0 THEN Min(num_samples, K) ELSE K)
        /\ Len(self.all_intents) = DatasetLen
        /\ \E f \in Injections(DatasetLen, K) :
              \A idx \in 0..(DatasetLen - 1) : GetItem(idx) = ItemOfPair(f[idx + 1])

\* C8 witness: two different pairs, shuffled, sampled down to the second one
C8_Witness ==
    /\ DatasetDone /\ K = 2 /\ num_samples = 1 /\ shuffled
    /\ input_file[2] # input_file[3]
    /\ DatasetLen = 1 /\ GetItem(0) = ItemOfPair(2)

\* C9: with num_samples = -1 and shuffle = False the labeled dataset keeps every
\* pair in file order, example idx being line idx of the slot file and line
\* idx + 1 of the input file; the inference dataset never shuffles or samples,
\* example idx being the idx-th query and its length the number of queries.
C9_OrderPreserved ==
    /\ (DatasetDone /\ num_samples = -1 /\ ~shuffle) =>
          /\ DatasetLen = K
          /\ \A idx \in 0..(K - 1) : GetItem(idx) = ItemOfPair(idx + 1)
    /\ InferDone =>
          /\ ~shuffled
          /\ DatasetLen = N
          /\ \A idx \in 0..(N - 1) :
                LET e == ExampleOf(queries[idx + 1], FALSE, <<>>, eff_max_seq_length)
                    g == GetItem(idx)
                IN  /\ g.input_ids = e.input_ids /\ g.segment_ids = e.segment_ids
                    /\ g.input_mask = e.input_mask /\ g.slot_mask = e.slot_mask

\* C9 witness: two different pairs kept, unshuffled and unsampled
C9_Witness ==
    /\ DatasetDone /\ num_samples = -1 /\ ~shuffle /\ K = 2
    /\ input_file[2] # input_file[3] /\ slot_file[1] # slot_file[2]
    /\ DatasetLen = 2

BadArguments ==
    /\ caller = "BertJointIntentSlotDataset"
    /\ num_samples = 0 \/ Len(slot_file) # Len(PySliceFrom(input_file, 1))

\* C10: num_samples = 0, and a slot file whose line count differs from that of
\* the input file without its header, are rejected with an error, raised before
\* the tokenizer is called on any word, before any shuffling and before any
\* statistics file is written; no dataset exists.
C10_RejectedBeforeAnyWork ==
    BadArguments =>
        /\ pc \in {"init", "read", "assert", "raised"}
        /\ pc = "raised" => err = (IF num_samples = 0 THEN "ValueError" ELSE "AssertionError")
        /\ tokenizer_calls = 0 /\ ~shuffled /\ stats_files = {}
        /\ ~Returned /\ ~self.built

\* C10 witness: two slot lines against one data line, rejected by the assert
C10_Witness ==
    /\ caller = "BertJointIntentSlotDataset" /\ pc = "raised" /\ err = "AssertionError"
    /\ Len(slot_file) = 2 /\ Len(input_file) = 2 /\ num_samples # 0

====
